---- MODULE Spec2Model ----
(***************************************************************************)
(* A model of the villager pathfinding core: GridMap (src/grid_map.py) and *)
(* PathFinder (src/pathfinding.py).                                        *)
(*                                                                         *)
(* A position is a pair <<row, col>>.  The grid is a function from the     *)
(* in-bounds positions to a tile, "" (empty land), "T" (tilled dirt) or    *)
(* "F" (fence).  Python's None is the record None; a returned path is      *)
(* wrapped by Some so that the two can be compared.                        *)
(***************************************************************************)
EXTENDS Integers, Sequences, FiniteSets, TLC

\* Largest grid the model constructs (GridMap(columns, rows)).
MaxRows == 3
MaxCols == 3
\* Most tiles of a grid that are not empty land (fenced or tilled).
MaxMarked == 3
\* Most queries Spec makes of one engine.
MaxCalls == 2
\* the sides of the grid maps that are edited between queries are at most this
MaxSide == 2
\* the grid maps whose operations are run in any order have at most this many
\* tiles
MaxTiles == 4

\* the grid maps on which one search is followed statement by statement have
\* at most this many columns, and at most this many fences
MaxWide == 5
MaxFences == 2

VARIABLES
    rows,              \* GridMap.rows
    columns,           \* GridMap.columns
    grid,              \* GridMap.grid, grid[<<row, col>>]
    visited_nodes,     \* PathFinder.visited_nodes
    pathfinding_time,  \* PathFinder.pathfinding_time: the call that measured it
    calls,             \* how many queries the engine has answered
    call,              \* the last operation called and its arguments
    ret,               \* what that operation returned
    threads            \* the searches in progress: each one's arguments, its
                       \* local variables and its position in the code

vars == <<rows, columns, grid, visited_nodes, pathfinding_time, calls, call, ret,
          threads>>

Tiles == {"", "T", "F"}

None == [kind |-> "None"]
Some(path) == [kind |-> "path", path |-> path]

abs(x) == IF x < 0 THEN 0 - x ELSE x
max(a, b) == IF a >= b THEN a ELSE b

(***************************************************************************)
(* GridMap queries.                                                        *)
(***************************************************************************)
is_valid_position(row, col) ==
    0 <= row /\ row < rows /\ 0 <= col /\ col < columns

\* a variant that takes only Empty tiles, not Tilled ones, as walkable
is_walkable_empty_only(row, col) ==
    IF ~is_valid_position(row, col) THEN FALSE
    ELSE grid[<<row, col>>] = ""

is_walkable(row, col) ==
    IF ~is_valid_position(row, col) THEN FALSE
    ELSE grid[<<row, col>>] # "F"

directions == << <<-1, 0>>, <<1, 0>>, <<0, -1>>, <<0, 1>> >>

\* a variant without the bounds check: all four candidates are returned
get_neighbors_unbounded(row, col) ==
    [i \in 1..4 |-> <<row + directions[i][1], col + directions[i][2]>>]

\* a variant that also leaves out the neighbours that are not walkable
get_neighbors_walkable(row, col) ==
    LET cand == [i \in 1..4 |-> <<row + directions[i][1], col + directions[i][2]>>]
    IN  SelectSeq(cand, LAMBDA p : is_walkable(p[1], p[2]))

get_neighbors(row, col) ==
    LET cand == [i \in 1..4 |-> <<row + directions[i][1], col + directions[i][2]>>]
    IN  SelectSeq(cand, LAMBDA p : is_valid_position(p[1], p[2]))

\* a variant with the two loops exchanged: the scan goes down the columns
RECURSIVE find_tilled_from_by_column(_)
find_tilled_from_by_column(i) ==
    IF i >= rows * columns THEN << >>
    ELSE LET p == <<i % rows, i \div rows>>
         IN  (IF grid[p] = "T" THEN <<p>> ELSE << >>)
                 \o find_tilled_from_by_column(i + 1)

RECURSIVE find_tilled_from(_)
find_tilled_from(i) ==
    \* the scan of range(rows) x range(columns), from the i-th cell on
    IF i >= rows * columns THEN << >>
    ELSE LET p == <<i \div columns, i % columns>>
         IN  (IF grid[p] = "T" THEN <<p>> ELSE << >>) \o find_tilled_from(i + 1)

find_tilled_tiles == find_tilled_from(0)

(***************************************************************************)
(* Heuristics.  A float the code computes is a + sqrt(x) for naturals a    *)
(* and x; it is kept exactly, as the pair <<a, x>> with x = 0 or x not a   *)
(* perfect square, and compared exactly.                                   *)
(***************************************************************************)
Num(a) == <<a, 0>>

Sqrt(x) ==
    IF \E k \in 0..x : k * k = x
    THEN <<CHOOSE k \in 0..x : k * k = x, 0>>
    ELSE <<0, x>>

Plus(a, n) == <<a + n[1], n[2]>>

NumLess(p, q) ==
    \* p[1] + sqrt(p[2]) < q[1] + sqrt(q[2])
    LET k == q[1] - p[1]
        x == p[2]
        y == q[2]
    IN  IF k >= 0
        THEN LET l == x - k * k - y IN l < 0 \/ l * l < 4 * k * k * y
        ELSE LET r == y - x - k * k IN r > 0 /\ 4 * k * k * x < r * r

_heuristic_manhattan(pos1, pos2) ==
    Num(abs(pos1[1] - pos2[1]) + abs(pos1[2] - pos2[2]))

_heuristic_euclidean(pos1, pos2) ==
    Sqrt((pos1[1] - pos2[1]) * (pos1[1] - pos2[1])
         + (pos1[2] - pos2[2]) * (pos1[2] - pos2[2]))

\* a variant that returns the squared straight-line distance
_heuristic_chebyshev_squared(pos1, pos2) ==
    Num((pos1[1] - pos2[1]) * (pos1[1] - pos2[1])
        + (pos1[2] - pos2[2]) * (pos1[2] - pos2[2]))

_heuristic_chebyshev(pos1, pos2) ==
    Num(max(abs(pos1[1] - pos2[1]), abs(pos1[2] - pos2[2])))

_get_heuristic(pos1, pos2, heuristic_type) ==
    IF heuristic_type = "euclidean" THEN _heuristic_euclidean(pos1, pos2)
    ELSE IF heuristic_type = "chebyshev" THEN _heuristic_chebyshev(pos1, pos2)
    ELSE _heuristic_manhattan(pos1, pos2)

(***************************************************************************)
(* The priority queue: a heap of tuples <<priority, counter, position>>,   *)
(* kept as the set of its entries; heappop takes the smallest tuple.       *)
(***************************************************************************)
PosLess(p, q) == p[1] < q[1] \/ (p[1] = q[1] /\ p[2] < q[2])

EntryLess(e1, e2) ==
    \* Python's tuple comparison: the first differing component decides
    \/ NumLess(e1[1], e2[1])
    \/ e1[1] = e2[1] /\ e1[2] < e2[2]
    \/ e1[1] = e2[1] /\ e1[2] = e2[2] /\ PosLess(e1[3], e2[3])

heappop(open_set) ==
    CHOOSE e \in open_set : \A o \in open_set \ {e} : EntryLess(e, o)

\* a variant without the final path.reverse(): goal first, start last
RECURSIVE _reconstruct_path_unreversed(_, _)
_reconstruct_path_unreversed(came_from, current) ==
    IF current \in DOMAIN came_from
    THEN <<current>> \o _reconstruct_path_unreversed(came_from, came_from[current])
    ELSE <<current>>

RECURSIVE _reconstruct_path(_, _)
_reconstruct_path(came_from, current) ==
    \* path = [current]; while current in came_from: ...; path.reverse()
    IF current \in DOMAIN came_from
    THEN Append(_reconstruct_path(came_from, came_from[current]), current)
    ELSE <<current>>

preconditions_hold(start, goal) ==
    \* the four early returns shared by the searches
    /\ is_valid_position(start[1], start[2])
    /\ is_valid_position(goal[1], goal[2])
    /\ is_walkable(start[1], start[2])
    /\ is_walkable(goal[1], goal[2])

EmptyMap == [p \in {} |-> p]

(***************************************************************************)
(* The engine `self` is the record [visited_nodes, timed]: timed says      *)
(* that pathfinding_time has been assigned time.time() - start_time.       *)
(* Every search returns [self |-> the engine afterwards, ret |-> result].  *)
(***************************************************************************)

(***************************************************************************)
(* A*: find_path_astar.                                                    *)
(***************************************************************************)
astar_init(start, goal, heuristic_type) ==
    [open_set      |-> {<<Num(0), 0, start>>},
     counter       |-> 1,
     came_from     |-> EmptyMap,
     g_score       |-> (start :> 0),
     f_score       |-> (start :> _get_heuristic(start, goal, heuristic_type)),
     open_set_hash |-> {start},
     visited_nodes |-> 0,
     done          |-> FALSE,
     path          |-> None]

\* a variant that pushes an entry whenever the score of a neighbor improves,
\* whether or not the neighbor already waits in the queue
RECURSIVE astar_relax_always_push(_, _, _, _, _, _)
astar_relax_always_push(s, current, neighbors, i, goal, heuristic_type) ==
    IF i > Len(neighbors) THEN s
    ELSE
    LET neighbor == neighbors[i]
        tentative_g_score == s.g_score[current] + 1
    IN  IF ~is_walkable(neighbor[1], neighbor[2])
        THEN astar_relax_always_push(s, current, neighbors, i + 1, goal,
                                     heuristic_type)
        ELSE IF neighbor \notin DOMAIN s.g_score
                \/ tentative_g_score < s.g_score[neighbor]
        THEN LET f  == Plus(tentative_g_score,
                            _get_heuristic(neighbor, goal, heuristic_type))
                 s1 == [s EXCEPT !.came_from = (neighbor :> current) @@ @,
                                 !.g_score = (neighbor :> tentative_g_score) @@ @,
                                 !.f_score = (neighbor :> f) @@ @]
                 s2 == [s1 EXCEPT
                          !.open_set = @ \cup {<<s1.f_score[neighbor], s1.counter, neighbor>>},
                          !.counter = @ + 1,
                          !.open_set_hash = @ \cup {neighbor}]
             IN  astar_relax_always_push(s2, current, neighbors, i + 1, goal,
                                         heuristic_type)
        ELSE astar_relax_always_push(s, current, neighbors, i + 1, goal,
                                     heuristic_type)

RECURSIVE astar_relax(_, _, _, _, _, _)
astar_relax(s, current, neighbors, i, goal, heuristic_type) ==
    \* the for loop over get_neighbors(current), from its i-th element on
    IF i > Len(neighbors) THEN s
    ELSE
    LET neighbor == neighbors[i]
        tentative_g_score == s.g_score[current] + 1
    IN  IF ~is_walkable(neighbor[1], neighbor[2])
        THEN astar_relax(s, current, neighbors, i + 1, goal, heuristic_type)
        ELSE IF neighbor \notin DOMAIN s.g_score
                \/ tentative_g_score < s.g_score[neighbor]
        THEN LET f  == Plus(tentative_g_score,
                            _get_heuristic(neighbor, goal, heuristic_type))
                 s1 == [s EXCEPT !.came_from = (neighbor :> current) @@ @,
                                 !.g_score = (neighbor :> tentative_g_score) @@ @,
                                 !.f_score = (neighbor :> f) @@ @]
                 s2 == IF neighbor \notin s1.open_set_hash
                       THEN [s1 EXCEPT
                               !.open_set = @ \cup {<<s1.f_score[neighbor], s1.counter, neighbor>>},
                               !.counter = @ + 1,
                               !.open_set_hash = @ \cup {neighbor}]
                       ELSE s1
             IN  astar_relax(s2, current, neighbors, i + 1, goal, heuristic_type)
        ELSE astar_relax(s, current, neighbors, i + 1, goal, heuristic_type)

astar_iter(s, goal, heuristic_type) ==
    \* one iteration of `while open_set`
    LET e       == heappop(s.open_set)
        current == e[3]
        s1      == [s EXCEPT !.open_set = @ \ {e},
                             !.open_set_hash = @ \ {current},
                             !.visited_nodes = @ + 1]
    IN  IF current = goal
        THEN [s1 EXCEPT !.done = TRUE,
                        !.path = Some(_reconstruct_path(s1.came_from, current))]
        ELSE astar_relax(s1, current, get_neighbors(current[1], current[2]), 1,
                         goal, heuristic_type)

RECURSIVE astar_loop(_, _, _)
astar_loop(s, goal, heuristic_type) ==
    IF s.done \/ s.open_set = {} THEN s
    ELSE astar_loop(astar_iter(s, goal, heuristic_type), goal, heuristic_type)

\* a variant whose count of expansions is carried over from the call before
\* and that gives up once the count exceeds the number of tiles
find_path_astar_stale_count(self, start, goal, heuristic_type) ==
    IF ~preconditions_hold(start, goal)
    THEN [self |-> [self EXCEPT !.visited_nodes = 0], ret |-> None]
    ELSE LET s == astar_loop(astar_init(start, goal, heuristic_type), goal,
                             heuristic_type)
             n == self.visited_nodes + s.visited_nodes
         IN  [self |-> [visited_nodes |-> n, timed |-> TRUE],
              ret  |-> IF n > rows * columns THEN None ELSE s.path]

find_path_astar(self, start, goal, heuristic_type) ==
    IF ~preconditions_hold(start, goal)
    THEN [self |-> [self EXCEPT !.visited_nodes = 0], ret |-> None]
    ELSE LET s == astar_loop(astar_init(start, goal, heuristic_type), goal,
                             heuristic_type)
         IN  [self |-> [visited_nodes |-> s.visited_nodes, timed |-> TRUE],
              ret  |-> s.path]

(***************************************************************************)
(* Breadth-first search: find_path_bfs.  It assigns neither visited_nodes  *)
(* nor pathfinding_time.                                                   *)
(***************************************************************************)
\* a variant that does not mark the start as visited
bfs_init_start_unvisited(start) ==
    [queue     |-> <<start>>,
     came_from |-> EmptyMap,
     visited   |-> {},
     done      |-> FALSE,
     path      |-> None]

bfs_init(start) ==
    [queue     |-> <<start>>,
     came_from |-> EmptyMap,
     visited   |-> {start},
     done      |-> FALSE,
     path      |-> None]

RECURSIVE bfs_relax(_, _, _, _)
bfs_relax(s, current, neighbors, i) ==
    IF i > Len(neighbors) THEN s
    ELSE
    LET neighbor == neighbors[i]
    IN  IF ~is_walkable(neighbor[1], neighbor[2])
        THEN bfs_relax(s, current, neighbors, i + 1)
        ELSE IF neighbor \notin s.visited
        THEN bfs_relax([s EXCEPT !.visited = @ \cup {neighbor},
                                 !.came_from = (neighbor :> current) @@ @,
                                 !.queue = Append(@, neighbor)],
                       current, neighbors, i + 1)
        ELSE bfs_relax(s, current, neighbors, i + 1)

\* a variant that takes the newest entry of the queue (pop, not popleft)
bfs_iter_pop_newest(s, goal) ==
    LET current == s.queue[Len(s.queue)]
        s1      == [s EXCEPT !.queue = SubSeq(@, 1, Len(@) - 1)]
    IN  IF current = goal
        THEN [s1 EXCEPT !.done = TRUE,
                        !.path = Some(_reconstruct_path(s1.came_from, current))]
        ELSE bfs_relax(s1, current, get_neighbors(current[1], current[2]), 1)

bfs_iter(s, goal) ==
    LET current == Head(s.queue)
        s1      == [s EXCEPT !.queue = Tail(@)]
    IN  IF current = goal
        THEN [s1 EXCEPT !.done = TRUE,
                        !.path = Some(_reconstruct_path(s1.came_from, current))]
        ELSE bfs_relax(s1, current, get_neighbors(current[1], current[2]), 1)

RECURSIVE bfs_loop(_, _)
bfs_loop(s, goal) ==
    IF s.done \/ s.queue = << >> THEN s
    ELSE bfs_loop(bfs_iter(s, goal), goal)

find_path_bfs(self, start, goal) ==
    IF ~preconditions_hold(start, goal)
    THEN [self |-> self, ret |-> None]
    ELSE [self |-> self, ret |-> bfs_loop(bfs_init(start), goal).path]

(***************************************************************************)
(* Dijkstra: find_path_dijkstra.                                           *)
(***************************************************************************)
dijkstra_init(start) ==
    [open_set      |-> {<<Num(0), 0, start>>},
     counter       |-> 1,
     came_from     |-> EmptyMap,
     cost          |-> (start :> 0),
     open_set_hash |-> {start},
     visited_nodes |-> 0,
     done          |-> FALSE,
     path          |-> None]

\* a variant that pushes without `counter += 1`
RECURSIVE dijkstra_relax_same_counter(_, _, _, _)
dijkstra_relax_same_counter(s, current, neighbors, i) ==
    IF i > Len(neighbors) THEN s
    ELSE
    LET neighbor == neighbors[i]
        tentative_cost == s.cost[current] + 1
    IN  IF ~is_walkable(neighbor[1], neighbor[2])
        THEN dijkstra_relax_same_counter(s, current, neighbors, i + 1)
        ELSE IF neighbor \notin DOMAIN s.cost \/ tentative_cost < s.cost[neighbor]
        THEN LET s1 == [s EXCEPT !.came_from = (neighbor :> current) @@ @,
                                 !.cost = (neighbor :> tentative_cost) @@ @]
                 s2 == IF neighbor \notin s1.open_set_hash
                       THEN [s1 EXCEPT
                               !.open_set = @ \cup {<<Num(tentative_cost), s1.counter, neighbor>>},
                               !.open_set_hash = @ \cup {neighbor}]
                       ELSE s1
             IN  dijkstra_relax_same_counter(s2, current, neighbors, i + 1)
        ELSE dijkstra_relax_same_counter(s, current, neighbors, i + 1)

\* a variant in which a way of equal cost replaces the predecessor
RECURSIVE dijkstra_relax_last_parent(_, _, _, _)
dijkstra_relax_last_parent(s, current, neighbors, i) ==
    IF i > Len(neighbors) THEN s
    ELSE
    LET neighbor == neighbors[i]
        tentative_cost == s.cost[current] + 1
    IN  IF ~is_walkable(neighbor[1], neighbor[2])
        THEN dijkstra_relax_last_parent(s, current, neighbors, i + 1)
        ELSE IF neighbor \notin DOMAIN s.cost \/ tentative_cost <= s.cost[neighbor]
        THEN LET s1 == [s EXCEPT !.came_from = (neighbor :> current) @@ @,
                                 !.cost = (neighbor :> tentative_cost) @@ @]
                 s2 == IF neighbor \notin s1.open_set_hash
                       THEN [s1 EXCEPT
                               !.open_set = @ \cup {<<Num(tentative_cost), s1.counter, neighbor>>},
                               !.counter = @ + 1,
                               !.open_set_hash = @ \cup {neighbor}]
                       ELSE s1
             IN  dijkstra_relax_last_parent(s2, current, neighbors, i + 1)
        ELSE dijkstra_relax_last_parent(s, current, neighbors, i + 1)

RECURSIVE dijkstra_relax(_, _, _, _)
dijkstra_relax(s, current, neighbors, i) ==
    IF i > Len(neighbors) THEN s
    ELSE
    LET neighbor == neighbors[i]
        tentative_cost == s.cost[current] + 1
    IN  IF ~is_walkable(neighbor[1], neighbor[2])
        THEN dijkstra_relax(s, current, neighbors, i + 1)
        ELSE IF neighbor \notin DOMAIN s.cost \/ tentative_cost < s.cost[neighbor]
        THEN LET s1 == [s EXCEPT !.came_from = (neighbor :> current) @@ @,
                                 !.cost = (neighbor :> tentative_cost) @@ @]
                 s2 == IF neighbor \notin s1.open_set_hash
                       THEN [s1 EXCEPT
                               !.open_set = @ \cup {<<Num(tentative_cost), s1.counter, neighbor>>},
                               !.counter = @ + 1,
                               !.open_set_hash = @ \cup {neighbor}]
                       ELSE s1
             IN  dijkstra_relax(s2, current, neighbors, i + 1)
        ELSE dijkstra_relax(s, current, neighbors, i + 1)

dijkstra_iter(s, goal) ==
    LET e       == heappop(s.open_set)
        current == e[3]
        s1      == [s EXCEPT !.open_set = @ \ {e},
                             !.open_set_hash = @ \ {current},
                             !.visited_nodes = @ + 1]
    IN  IF current = goal
        THEN [s1 EXCEPT !.done = TRUE,
                        !.path = Some(_reconstruct_path(s1.came_from, current))]
        ELSE dijkstra_relax(s1, current, get_neighbors(current[1], current[2]), 1)

RECURSIVE dijkstra_loop(_, _)
dijkstra_loop(s, goal) ==
    IF s.done \/ s.open_set = {} THEN s
    ELSE dijkstra_loop(dijkstra_iter(s, goal), goal)

find_path_dijkstra(self, start, goal) ==
    IF ~preconditions_hold(start, goal)
    THEN [self |-> [self EXCEPT !.visited_nodes = 0], ret |-> None]
    ELSE LET s == dijkstra_loop(dijkstra_init(start), goal)
         IN  [self |-> [visited_nodes |-> s.visited_nodes, timed |-> TRUE],
              ret  |-> s.path]

(***************************************************************************)
(* Greedy best-first: find_path_greedy_best_first.                         *)
(***************************************************************************)
greedy_init(start, goal, heuristic_type) ==
    [open_set      |-> {<<_get_heuristic(start, goal, heuristic_type), 0, start>>},
     counter       |-> 1,
     came_from     |-> EmptyMap,
     visited       |-> {start},
     visited_nodes |-> 0,
     done          |-> FALSE,
     path          |-> None]

\* a variant that pushes every walkable neighbor, visited or not
RECURSIVE greedy_relax_unmarked(_, _, _, _, _, _)
greedy_relax_unmarked(s, current, neighbors, i, goal, heuristic_type) ==
    IF i > Len(neighbors) THEN s
    ELSE
    LET neighbor == neighbors[i]
    IN  IF ~is_walkable(neighbor[1], neighbor[2])
        THEN greedy_relax_unmarked(s, current, neighbors, i + 1, goal,
                                   heuristic_type)
        ELSE LET h == _get_heuristic(neighbor, goal, heuristic_type)
             IN  greedy_relax_unmarked(
                     [s EXCEPT !.visited = @ \cup {neighbor},
                               !.came_from = (neighbor :> current) @@ @,
                               !.open_set = @ \cup {<<h, s.counter, neighbor>>},
                               !.counter = @ + 1],
                     current, neighbors, i + 1, goal, heuristic_type)

RECURSIVE greedy_relax(_, _, _, _, _, _)
greedy_relax(s, current, neighbors, i, goal, heuristic_type) ==
    IF i > Len(neighbors) THEN s
    ELSE
    LET neighbor == neighbors[i]
    IN  IF ~is_walkable(neighbor[1], neighbor[2])
        THEN greedy_relax(s, current, neighbors, i + 1, goal, heuristic_type)
        ELSE IF neighbor \notin s.visited
        THEN LET h == _get_heuristic(neighbor, goal, heuristic_type)
             IN  greedy_relax([s EXCEPT !.visited = @ \cup {neighbor},
                                        !.came_from = (neighbor :> current) @@ @,
                                        !.open_set = @ \cup {<<h, s.counter, neighbor>>},
                                        !.counter = @ + 1],
                              current, neighbors, i + 1, goal, heuristic_type)
        ELSE greedy_relax(s, current, neighbors, i + 1, goal, heuristic_type)

greedy_iter(s, goal, heuristic_type) ==
    LET e       == heappop(s.open_set)
        current == e[3]
        s1      == [s EXCEPT !.open_set = @ \ {e}, !.visited_nodes = @ + 1]
    IN  IF current = goal
        THEN [s1 EXCEPT !.done = TRUE,
                        !.path = Some(_reconstruct_path(s1.came_from, current))]
        ELSE greedy_relax(s1, current, get_neighbors(current[1], current[2]), 1,
                          goal, heuristic_type)

RECURSIVE greedy_loop(_, _, _)
greedy_loop(s, goal, heuristic_type) ==
    IF s.done \/ s.open_set = {} THEN s
    ELSE greedy_loop(greedy_iter(s, goal, heuristic_type), goal, heuristic_type)

find_path_greedy_best_first(self, start, goal, heuristic_type) ==
    IF ~preconditions_hold(start, goal)
    THEN [self |-> [self EXCEPT !.visited_nodes = 0], ret |-> None]
    ELSE LET s == greedy_loop(greedy_init(start, goal, heuristic_type), goal,
                              heuristic_type)
         IN  [self |-> [visited_nodes |-> s.visited_nodes, timed |-> TRUE],
              ret  |-> s.path]

(***************************************************************************)
(* find_nearest_tilled, get_path_length, run_pathfinding_with_stats.       *)
(***************************************************************************)
\* float('inf'): a sentinel that every length is below
Infinity == -1

Truthy(path) ==
    \* Python's `if path`: neither None nor an empty list
    path # None /\ path.path # << >>

IntVal(n) == [kind |-> "int", value |-> n]

\* a variant whose chain ends in breadth-first search
find_path_by_default_bfs(self, algorithm, start, goal, heuristic_type) ==
    IF algorithm = "dijkstra" THEN find_path_dijkstra(self, start, goal)
    ELSE IF algorithm = "greedy"
    THEN find_path_greedy_best_first(self, start, goal, heuristic_type)
    ELSE IF algorithm = "astar"
    THEN find_path_astar(self, start, goal, heuristic_type)
    ELSE find_path_bfs(self, start, goal)

find_path_by(self, algorithm, start, goal, heuristic_type) ==
    \* the if/elif chain of find_nearest_tilled
    IF algorithm = "dijkstra" THEN find_path_dijkstra(self, start, goal)
    ELSE IF algorithm = "greedy"
    THEN find_path_greedy_best_first(self, start, goal, heuristic_type)
    ELSE IF algorithm = "bfs" THEN find_path_bfs(self, start, goal)
    ELSE find_path_astar(self, start, goal, heuristic_type)

nearest_init(self) ==
    [self              |-> self,
     shortest_path     |-> None,
     shortest_distance |-> Infinity,
     nearest_goal      |-> None]

\* a variant without the comparison of lengths: the first goal that has a
\* path is kept
RECURSIVE nearest_loop_first_found(_, _, _, _, _, _)
nearest_loop_first_found(n, tilled_tiles, i, start, heuristic_type, algorithm) ==
    IF i > Len(tilled_tiles) THEN n
    ELSE
    LET tilled_pos == tilled_tiles[i]
        r    == find_path_by(n.self, algorithm, start, tilled_pos, heuristic_type)
        path == r.ret
        n1   == [n EXCEPT !.self = r.self]
    IN  IF Truthy(path) /\ n.shortest_distance = Infinity
        THEN nearest_loop_first_found([n1 EXCEPT !.shortest_path = path,
                                                 !.shortest_distance = Len(path.path),
                                                 !.nearest_goal = tilled_pos],
                                      tilled_tiles, i + 1, start, heuristic_type,
                                      algorithm)
        ELSE nearest_loop_first_found(n1, tilled_tiles, i + 1, start,
                                      heuristic_type, algorithm)

\* a variant that gives up at the first goal without a path (break, not
\* continue)
RECURSIVE nearest_loop_stops_at_failure(_, _, _, _, _, _)
nearest_loop_stops_at_failure(n, tilled_tiles, i, start, heuristic_type, algorithm) ==
    IF i > Len(tilled_tiles) THEN n
    ELSE
    LET tilled_pos == tilled_tiles[i]
        r    == find_path_by(n.self, algorithm, start, tilled_pos, heuristic_type)
        path == r.ret
        n1   == [n EXCEPT !.self = r.self]
    IN  IF ~Truthy(path) THEN n1
        ELSE IF n.shortest_distance = Infinity
                \/ Len(path.path) < n.shortest_distance
        THEN nearest_loop_stops_at_failure(
                 [n1 EXCEPT !.shortest_path = path,
                            !.shortest_distance = Len(path.path),
                            !.nearest_goal = tilled_pos],
                 tilled_tiles, i + 1, start, heuristic_type, algorithm)
        ELSE nearest_loop_stops_at_failure(n1, tilled_tiles, i + 1, start,
                                           heuristic_type, algorithm)

\* a variant that also takes a path of equal length (<= for <): of the
\* nearest goals the last one wins
RECURSIVE nearest_loop_last_wins(_, _, _, _, _, _)
nearest_loop_last_wins(n, tilled_tiles, i, start, heuristic_type, algorithm) ==
    IF i > Len(tilled_tiles) THEN n
    ELSE
    LET tilled_pos == tilled_tiles[i]
        r    == find_path_by(n.self, algorithm, start, tilled_pos, heuristic_type)
        path == r.ret
        n1   == [n EXCEPT !.self = r.self]
    IN  IF Truthy(path)
           /\ (n.shortest_distance = Infinity
               \/ Len(path.path) <= n.shortest_distance)
        THEN nearest_loop_last_wins([n1 EXCEPT !.shortest_path = path,
                                               !.shortest_distance = Len(path.path),
                                               !.nearest_goal = tilled_pos],
                                    tilled_tiles, i + 1, start, heuristic_type,
                                    algorithm)
        ELSE nearest_loop_last_wins(n1, tilled_tiles, i + 1, start,
                                    heuristic_type, algorithm)

\* a variant that leaves on the engine the count of the search whose path it
\* keeps
RECURSIVE nearest_loop_keeps_best_count(_, _, _, _, _, _)
nearest_loop_keeps_best_count(n, tilled_tiles, i, start, heuristic_type, algorithm) ==
    IF i > Len(tilled_tiles) THEN n
    ELSE
    LET tilled_pos == tilled_tiles[i]
        r    == find_path_by(n.self, algorithm, start, tilled_pos, heuristic_type)
        path == r.ret
    IN  IF Truthy(path)
           /\ (n.shortest_distance = Infinity
               \/ Len(path.path) < n.shortest_distance)
        THEN nearest_loop_keeps_best_count(
                 [n EXCEPT !.self = r.self,
                           !.shortest_path = path,
                           !.shortest_distance = Len(path.path),
                           !.nearest_goal = tilled_pos],
                 tilled_tiles, i + 1, start, heuristic_type, algorithm)
        ELSE nearest_loop_keeps_best_count(n, tilled_tiles, i + 1, start,
                                           heuristic_type, algorithm)

RECURSIVE nearest_loop(_, _, _, _, _, _)
nearest_loop(n, tilled_tiles, i, start, heuristic_type, algorithm) ==
    \* the for loop over tilled_tiles, from its i-th element on
    IF i > Len(tilled_tiles) THEN n
    ELSE
    LET tilled_pos == tilled_tiles[i]
        r    == find_path_by(n.self, algorithm, start, tilled_pos, heuristic_type)
        path == r.ret
        n1   == [n EXCEPT !.self = r.self]
    IN  IF Truthy(path)
           /\ (n.shortest_distance = Infinity
               \/ Len(path.path) < n.shortest_distance)
        THEN nearest_loop([n1 EXCEPT !.shortest_path = path,
                                     !.shortest_distance = Len(path.path),
                                     !.nearest_goal = tilled_pos],
                          tilled_tiles, i + 1, start, heuristic_type, algorithm)
        ELSE nearest_loop(n1, tilled_tiles, i + 1, start, heuristic_type, algorithm)

find_nearest_tilled(self, start, heuristic_type, algorithm) ==
    LET tilled_tiles == find_tilled_tiles
    IN  IF tilled_tiles = << >> THEN [self |-> self, ret |-> None]
        ELSE LET n == nearest_loop(nearest_init(self), tilled_tiles, 1, start,
                                   heuristic_type, algorithm)
             IN  [self |-> n.self,
                  ret  |-> IF Truthy(n.shortest_path)
                           THEN [kind |-> "pair", goal |-> n.nearest_goal,
                                 path |-> n.shortest_path.path]
                           ELSE None]

\* a variant that counts the tiles of the path, not its steps
get_path_length_tiles(path) ==
    IF Truthy(path) THEN Len(path.path) ELSE 0

get_path_length(path) ==
    IF Truthy(path) THEN Len(path.path) - 1 ELSE 0

run_algorithm(self, algorithm, start, goal, heuristic_type) ==
    \* the if/elif chain of run_pathfinding_with_stats
    IF algorithm = "dijkstra" THEN find_path_dijkstra(self, start, goal)
    ELSE IF algorithm = "greedy"
    THEN find_path_greedy_best_first(self, start, goal, heuristic_type)
    ELSE IF algorithm = "bfs" THEN find_path_bfs(self, start, goal)
    ELSE find_path_astar(self, start, goal, heuristic_type)

stats_of(path, visited, time) ==
    \* the dictionary run_pathfinding_with_stats returns
    [kind          |-> "stats",
     path          |-> path,
     route_length  |-> IF Truthy(path) THEN IntVal(get_path_length(path)) ELSE None,
     visited_nodes |-> visited,
     time          |-> time]

(***************************************************************************)
(* The state machine.  Each operation is one action; call and ret record   *)
(* the operation and what it returned.                                     *)
(***************************************************************************)
Heuristics == {"manhattan", "euclidean", "chebyshev"}
Algorithms == {"astar", "dijkstra", "greedy", "bfs"}
\* the selections <<algorithm, heuristic_type>>; dijkstra and bfs take no
\* heuristic, so they are given the default one only
Selections == ({"astar", "greedy"} \X Heuristics)
              \cup ({"dijkstra", "bfs"} \X {"manhattan"})

SearchOps == {"find_path_astar", "find_path_bfs", "find_path_dijkstra",
              "find_path_greedy_best_first"}
QueryOps == SearchOps \cup {"find_nearest_tilled", "run_pathfinding_with_stats",
                            "get_path_length"}

Cells == (0..(rows - 1)) \X (0..(columns - 1))
\* the endpoints queries are given: every cell, and two positions outside
Positions == Cells \cup {<<-1, 0>>, <<0, columns>>}

Bool(b) == [kind |-> "bool", value |-> b]

\* the searches that can be in progress at once on one engine, and one that
\* has not been called
Threads == {"first", "second"}
Idle == [pc |-> "idle"]

Self == [visited_nodes |-> visited_nodes, timed |-> FALSE]

\* A measured time is an unknown of the run; the model keeps, in its place,
\* which call measured it.  ZeroTime is the constructor's 0.0.
ZeroTime == [measured_by |-> [op |-> "__init__"]]
Elapsed(c) == [measured_by |-> c]

\* a variant in which the search leaves a mark on the map: the start tile
\* becomes Tilled
Returns_marking_start(c, result) ==
    \E r \in {result} :
    /\ calls' = calls + 1
    /\ call' = c
    /\ ret' = r.ret
    /\ visited_nodes' = r.self.visited_nodes
    /\ pathfinding_time' = (IF r.self.timed THEN Elapsed(c) ELSE pathfinding_time)
    /\ grid' = (IF c.start \in DOMAIN grid
                THEN [grid EXCEPT ![c.start] = "T"] ELSE grid)
    /\ UNCHANGED <<rows, columns, threads>>

Returns(c, result) ==
    \* the engine fields and the return value after a query that ended as result
    \E r \in {result} :
    /\ calls' = calls + 1
    /\ call' = c
    /\ ret' = r.ret
    /\ visited_nodes' = r.self.visited_nodes
    /\ pathfinding_time' = (IF r.self.timed THEN Elapsed(c) ELSE pathfinding_time)
    /\ UNCHANGED <<rows, columns, grid, threads>>

FindPathAstar(start, goal, heuristic_type) ==
    Returns([op |-> "find_path_astar", start |-> start, goal |-> goal,
             heuristic_type |-> heuristic_type],
            find_path_astar(Self, start, goal, heuristic_type))

FindPathBfs(start, goal) ==
    Returns([op |-> "find_path_bfs", start |-> start, goal |-> goal],
            find_path_bfs(Self, start, goal))

FindPathDijkstra(start, goal) ==
    Returns([op |-> "find_path_dijkstra", start |-> start, goal |-> goal],
            find_path_dijkstra(Self, start, goal))

FindPathGreedyBestFirst(start, goal, heuristic_type) ==
    Returns([op |-> "find_path_greedy_best_first", start |-> start, goal |-> goal,
             heuristic_type |-> heuristic_type],
            find_path_greedy_best_first(Self, start, goal, heuristic_type))

FindNearestTilled(start, heuristic_type, algorithm) ==
    Returns([op |-> "find_nearest_tilled", start |-> start,
             heuristic_type |-> heuristic_type, algorithm |-> algorithm],
            find_nearest_tilled(Self, start, heuristic_type, algorithm))

RunPathfindingWithStats(start, goal, algorithm, heuristic_type) ==
    \E r \in {run_algorithm(Self, algorithm, start, goal, heuristic_type)} :
        /\ call' = [op |-> "run_pathfinding_with_stats", start |-> start,
                    goal |-> goal, algorithm |-> algorithm,
                    heuristic_type |-> heuristic_type]
        /\ visited_nodes' = r.self.visited_nodes
        /\ pathfinding_time' = (IF r.self.timed THEN Elapsed(call')
                                ELSE pathfinding_time)
        /\ ret' = stats_of(r.ret, visited_nodes', pathfinding_time')
        /\ calls' = calls + 1
        /\ UNCHANGED <<rows, columns, grid, threads>>

GetPathLength(path) ==
    /\ call' = [op |-> "get_path_length", path |-> path]
    /\ ret' = IntVal(get_path_length(path))
    /\ UNCHANGED <<rows, columns, grid, visited_nodes, pathfinding_time, calls,
                   threads>>

(***************************************************************************)
(* GridMap mutations.                                                      *)
(***************************************************************************)
\* a variant without the test of the tile type: any value is stored
set_tile_any_type(row, col, tile_type) ==
    IF ~is_valid_position(row, col) THEN [grid |-> grid, ret |-> FALSE]
    ELSE [grid |-> [grid EXCEPT ![<<row, col>>] = tile_type], ret |-> TRUE]

\* a variant that does not overwrite a fence
set_tile_keeps_fence(row, col, tile_type) ==
    IF ~is_valid_position(row, col) THEN [grid |-> grid, ret |-> FALSE]
    ELSE IF tile_type \notin Tiles THEN [grid |-> grid, ret |-> FALSE]
    ELSE IF grid[<<row, col>>] = "F" THEN [grid |-> grid, ret |-> TRUE]
    ELSE [grid |-> [grid EXCEPT ![<<row, col>>] = tile_type], ret |-> TRUE]

set_tile(row, col, tile_type) ==
    \* [grid, ret]: the grid afterwards and the value returned
    IF ~is_valid_position(row, col) THEN [grid |-> grid, ret |-> FALSE]
    ELSE IF tile_type \notin Tiles THEN [grid |-> grid, ret |-> FALSE]
    ELSE [grid |-> [grid EXCEPT ![<<row, col>>] = tile_type], ret |-> TRUE]

SetTile(row, col, tile_type) ==
    LET r == set_tile(row, col, tile_type)
    IN  /\ grid' = r.grid
        /\ call' = [op |-> "set_tile", row |-> row, col |-> col,
                    tile_type |-> tile_type]
        /\ ret' = Bool(r.ret)
        /\ UNCHANGED <<rows, columns, visited_nodes, pathfinding_time, calls,
                       threads>>

PlaceTilledDirt(row, col) ==
    LET r == set_tile(row, col, "T")
    IN  /\ grid' = r.grid
        /\ call' = [op |-> "place_tilled_dirt", row |-> row, col |-> col]
        /\ ret' = Bool(r.ret)
        /\ UNCHANGED <<rows, columns, visited_nodes, pathfinding_time, calls,
                       threads>>

\* a variant that clears the fences and keeps the tilled dirt
Clear_keeps_tilled ==
    /\ grid' = [p \in Cells |-> IF grid[p] = "T" THEN "T" ELSE ""]
    /\ call' = [op |-> "clear"]
    /\ ret' = None
    /\ UNCHANGED <<rows, columns, visited_nodes, pathfinding_time, calls,
                   threads>>

Clear ==
    /\ grid' = [p \in Cells |-> ""]
    /\ call' = [op |-> "clear"]
    /\ ret' = None
    /\ UNCHANGED <<rows, columns, visited_nodes, pathfinding_time, calls,
                   threads>>

(***************************************************************************)
(* generate_random_obstacles.  The density is a fraction <<n, d>> with d a *)
(* power of two, so that the product rows * columns * fence_density is     *)
(* exact in floating point; random.randint draws any row and any column.   *)
(***************************************************************************)
int(n, d) ==
    \* Python's int() of n / d: the fraction is cut off towards zero
    IF n >= 0 THEN n \div d ELSE 0 - ((0 - n) \div d)

num_fences(fence_density) ==
    int(rows * columns * fence_density[1], fence_density[2])

\* a variant without the test for tilled dirt: any tile is fenced
place_fence_anywhere(g, row, col) ==
    [g EXCEPT ![<<row, col>>] = "F"]

place_fence(g, row, col) ==
    \* one pass of the loop body, with (row, col) as drawn
    IF g[<<row, col>>] # "T" THEN [g EXCEPT ![<<row, col>>] = "F"] ELSE g

RECURSIVE obstacles_after(_, _)
obstacles_after(G, n) ==
    \* the grids that n more passes of the loop can make of a grid of G
    IF n <= 0 THEN G
    ELSE obstacles_after({place_fence(g, p[1], p[2]) : g \in G, p \in Cells},
                         n - 1)

GenerateRandomObstacles(fence_density) ==
    /\ grid' \in obstacles_after({grid}, num_fences(fence_density))
    /\ call' = [op |-> "generate_random_obstacles",
                fence_density |-> fence_density]
    /\ ret' = None
    /\ UNCHANGED <<rows, columns, visited_nodes, pathfinding_time, calls,
                   threads>>

(***************************************************************************)
(* GridMap queries as operations: what was asked and what was returned.    *)
(***************************************************************************)
Tile(t) == [kind |-> "tile", value |-> t]
List(l) == [kind |-> "list", value |-> l]

\* a variant that answers Empty for a position outside the grid
get_tile_default_empty(row, col) ==
    IF ~is_valid_position(row, col) THEN Tile("")
    ELSE Tile(grid[<<row, col>>])

get_tile(row, col) ==
    IF ~is_valid_position(row, col) THEN None
    ELSE Tile(grid[<<row, col>>])

GetTile(row, col) ==
    /\ call' = [op |-> "get_tile", row |-> row, col |-> col]
    /\ ret' = get_tile(row, col)
    /\ UNCHANGED <<rows, columns, grid, visited_nodes, pathfinding_time, calls,
                   threads>>

IsWalkable(row, col) ==
    /\ call' = [op |-> "is_walkable", row |-> row, col |-> col]
    /\ ret' = Bool(is_walkable(row, col))
    /\ UNCHANGED <<rows, columns, grid, visited_nodes, pathfinding_time, calls,
                   threads>>

GetNeighbors(row, col) ==
    /\ call' = [op |-> "get_neighbors", row |-> row, col |-> col]
    /\ ret' = List(get_neighbors(row, col))
    /\ UNCHANGED <<rows, columns, grid, visited_nodes, pathfinding_time, calls,
                   threads>>

FindTilledTiles ==
    /\ call' = [op |-> "find_tilled_tiles"]
    /\ ret' = List(find_tilled_tiles)
    /\ UNCHANGED <<rows, columns, grid, visited_nodes, pathfinding_time, calls,
                   threads>>

(***************************************************************************)
(* Specifications.  A PathFinder is constructed on a grid map that has     *)
(* been set up: any grid of at most MaxRows x MaxCols tiles with at most   *)
(* MaxMarked fenced or tilled tiles.                                       *)
(***************************************************************************)
Marked(g) == Cardinality({p \in DOMAIN g : g[p] # ""})

Init ==
    /\ rows \in 1..MaxRows
    /\ columns \in 1..MaxCols
    /\ grid \in {g \in [(0..(rows - 1)) \X (0..(columns - 1)) -> Tiles] :
                   Marked(g) <= MaxMarked}
    /\ visited_nodes = 0
    /\ pathfinding_time = ZeroTime
    /\ calls = 0
    /\ call = [op |-> "__init__"]
    /\ ret = None
    /\ threads = [t \in Threads |-> Idle]

\* SearchSpec: one query of the new engine, with any arguments.
SearchNext ==
    \/ /\ call.op = "__init__"
       /\ \/ \E p \in Positions : GetNeighbors(p[1], p[2])
          \/ \E start \in Positions, goal \in Positions, h \in Heuristics :
               FindPathAstar(start, goal, h)
          \/ \E start \in Positions, goal \in Positions :
               FindPathBfs(start, goal)
          \/ \E start \in Positions, goal \in Positions :
               FindPathDijkstra(start, goal)
          \/ \E start \in Positions, goal \in Positions, h \in Heuristics :
               FindPathGreedyBestFirst(start, goal, h)
          \/ \E start \in Positions, sel \in Selections :
               FindNearestTilled(start, sel[2], sel[1])
          \/ \E goal \in Cells, sel \in Selections :
               RunPathfindingWithStats(<<0, 0>>, goal, sel[1], sel[2])
    \/ /\ call.op = "find_path_bfs"
       /\ GetPathLength(ret)

SearchSpec == Init /\ [][SearchNext]_vars

\* Spec: up to MaxCalls queries of one engine, one after the other, between
\* the far corners of the grid or to a goal outside it.
Goals == {<<rows - 1, columns - 1>>, <<0, columns>>}

Next ==
    \/ /\ calls < MaxCalls
       /\ \/ \E goal \in Goals, h \in Heuristics : FindPathAstar(<<0, 0>>, goal, h)
          \/ \E goal \in Goals : FindPathBfs(<<0, 0>>, goal)
          \/ \E goal \in Goals : FindPathDijkstra(<<0, 0>>, goal)
          \/ \E goal \in Goals, h \in Heuristics :
               FindPathGreedyBestFirst(<<0, 0>>, goal, h)
          \/ \E a \in Algorithms : FindNearestTilled(<<0, 0>>, "manhattan", a)
          \/ \E a \in Algorithms :
               RunPathfindingWithStats(<<0, 0>>, <<rows - 1, columns - 1>>,
                                       a, "manhattan")
    \/ /\ call.op \in SearchOps
       /\ GetPathLength(ret)

Spec == Init /\ [][Next]_vars

\* WorldSpec: a grid map as GridMap.__init__ leaves it (all tiles Empty) and
\* an engine constructed on it; the map is edited at any time, and up to
\* MaxCalls queries are made of the engine between the edits.
TileTypes == Tiles \cup {"X"}

WorldInit ==
    /\ rows \in 1..MaxSide
    /\ columns \in 1..MaxSide
    /\ grid = [p \in (0..(rows - 1)) \X (0..(columns - 1)) |-> ""]
    /\ visited_nodes = 0
    /\ pathfinding_time = ZeroTime
    /\ calls = 0
    /\ call = [op |-> "__init__"]
    /\ ret = None
    /\ threads = [t \in Threads |-> Idle]

WorldNext ==
    \/ \E p \in Positions, t \in TileTypes : SetTile(p[1], p[2], t)
    \/ \E p \in Positions : PlaceTilledDirt(p[1], p[2])
    \/ Clear
    \/ /\ calls < MaxCalls
       /\ \/ \E goal \in Goals : FindPathAstar(<<0, 0>>, goal, "manhattan")
          \/ \E goal \in Goals : FindPathBfs(<<0, 0>>, goal)
          \/ \E goal \in Goals : FindPathDijkstra(<<0, 0>>, goal)
          \/ \E goal \in Goals : FindPathGreedyBestFirst(<<0, 0>>, goal, "manhattan")
          \/ \E a \in Algorithms : FindNearestTilled(<<0, 0>>, "manhattan", a)
          \/ \E a \in Algorithms :
               RunPathfindingWithStats(<<0, 0>>, <<rows - 1, columns - 1>>,
                                       a, "manhattan")
    \/ /\ call.op \in SearchOps
       /\ GetPathLength(ret)

WorldSpec == WorldInit /\ [][WorldNext]_vars

\* GridSpec: a grid map as GridMap.__init__ leaves it, of any shape with
\* up to MaxTiles tiles, and any sequence of its operations, with positions
\* inside and on every side outside the grid, tile types known and unknown,
\* and fence densities below, in and above the range 0 to 1.
GridInit ==
    /\ rows \in 1..MaxTiles
    /\ columns \in 1..MaxTiles
    /\ rows * columns <= MaxTiles
    /\ grid = [p \in (0..(rows - 1)) \X (0..(columns - 1)) |-> ""]
    /\ visited_nodes = 0
    /\ pathfinding_time = ZeroTime
    /\ calls = 0
    /\ call = [op |-> "__init__"]
    /\ ret = None
    /\ threads = [t \in Threads |-> Idle]

GridPositions ==
    Cells \cup {<<-1, 0>>, <<rows, 0>>, <<0, -1>>, <<0, columns>>}

Densities == {<<0, 1>>, <<1, 4>>, <<1, 2>>, <<1, 1>>, <<-1, 2>>}

GridNext ==
    \/ \E p \in GridPositions, t \in TileTypes : SetTile(p[1], p[2], t)
    \/ \E p \in GridPositions : PlaceTilledDirt(p[1], p[2])
    \/ \E fence_density \in Densities : GenerateRandomObstacles(fence_density)
    \/ Clear
    \/ \E p \in GridPositions : GetTile(p[1], p[2])
    \/ \E p \in GridPositions : IsWalkable(p[1], p[2])
    \/ \E p \in GridPositions : GetNeighbors(p[1], p[2])
    \/ FindTilledTiles

GridSpec == GridInit /\ [][GridNext]_vars

\* DispatchSpec: one query of a new engine that names its algorithm or its
\* heuristic by a string the code does not know.
OtherAlgorithm == "a_star"
OtherHeuristic == "octile"
OtherSelections ==
    ({OtherAlgorithm} \X (Heuristics \cup {OtherHeuristic}))
    \cup ({"astar", "greedy"} \X {OtherHeuristic})

DispatchNext ==
    /\ call.op = "__init__"
    /\ \/ \E start \in Positions, sel \in OtherSelections :
            FindNearestTilled(start, sel[2], sel[1])
       \/ \E goal \in Positions, sel \in OtherSelections :
            RunPathfindingWithStats(<<0, 0>>, goal, sel[1], sel[2])

DispatchSpec == Init /\ [][DispatchNext]_vars

(***************************************************************************)
(* The searches statement by statement.  A search in progress keeps the    *)
(* call it answers (call), its local variables (s), the positions it has   *)
(* popped so far (pops), the value of visited_nodes it has read for        *)
(* `self.visited_nodes += 1` (loaded) and its place in the code (pc).  The *)
(* local variables belong to the call; visited_nodes, pathfinding_time and *)
(* the grid map belong to the engine and are shared by all its calls.      *)
(***************************************************************************)
\* find_path_bfs assigns neither visited_nodes nor pathfinding_time
counts(c) == c.op # "find_path_bfs"

locals_init(c) ==
    CASE c.op = "find_path_astar" ->
           astar_init(c.start, c.goal, c.heuristic_type)
      [] c.op = "find_path_dijkstra" -> dijkstra_init(c.start)
      [] c.op = "find_path_greedy_best_first" ->
           greedy_init(c.start, c.goal, c.heuristic_type)
      [] c.op = "find_path_bfs" -> bfs_init(c.start)

locals_iter(c, s) ==
    CASE c.op = "find_path_astar" -> astar_iter(s, c.goal, c.heuristic_type)
      [] c.op = "find_path_dijkstra" -> dijkstra_iter(s, c.goal)
      [] c.op = "find_path_greedy_best_first" ->
           greedy_iter(s, c.goal, c.heuristic_type)
      [] c.op = "find_path_bfs" -> bfs_iter(s, c.goal)

\* `while open_set` / `while queue` is over, or the goal has been returned
loop_ended(c, s) ==
    \/ s.done
    \/ IF c.op = "find_path_bfs" THEN s.queue = <<>> ELSE s.open_set = {}

\* the position the next heappop / popleft takes
popping(c, s) ==
    IF c.op = "find_path_bfs" THEN Head(s.queue) ELSE heappop(s.open_set)[3]

Enter(t, c) ==
    \* the call up to its loop: visited_nodes = 0, the four checks, the locals
    /\ threads[t].pc = "idle"
    /\ visited_nodes' = (IF counts(c) THEN 0 ELSE visited_nodes)
    /\ threads' = [threads EXCEPT ![t] =
                     IF preconditions_hold(c.start, c.goal)
                     THEN [pc |-> "loop", call |-> c, s |-> locals_init(c),
                           pops |-> <<>>, loaded |-> 0, ret |-> None]
                     ELSE [pc |-> "done", call |-> c, s |-> None,
                           pops |-> <<>>, loaded |-> 0, ret |-> None]]
    /\ UNCHANGED <<rows, columns, grid, pathfinding_time, calls, call, ret>>

Pop(t) ==
    \* heappop / popleft, and the read of visited_nodes for `+= 1`
    /\ threads[t].pc = "loop"
    /\ ~loop_ended(threads[t].call, threads[t].s)
    /\ threads' = [threads EXCEPT
                     ![t].pc = "popped",
                     ![t].pops = Append(@, popping(threads[t].call, threads[t].s)),
                     ![t].loaded = IF counts(threads[t].call)
                                   THEN visited_nodes ELSE @]
    /\ UNCHANGED <<rows, columns, grid, visited_nodes, pathfinding_time, calls,
                   call, ret>>

\* a variant whose search gives up once the engine's count of expansions
\* exceeds the number of tiles
Expand_within_budget(t) ==
    /\ threads[t].pc = "popped"
    /\ visited_nodes' = (IF counts(threads[t].call)
                         THEN threads[t].loaded + 1 ELSE visited_nodes)
    /\ threads' = [threads EXCEPT
                     ![t].pc = "loop",
                     ![t].s = IF visited_nodes' > rows * columns
                              THEN [@ EXCEPT !.done = TRUE]
                              ELSE locals_iter(threads[t].call, @)]
    /\ UNCHANGED <<rows, columns, grid, pathfinding_time, calls, call, ret>>

\* a variant that tests the goal before it counts the pop
Expand_goal_uncounted(t) ==
    /\ threads[t].pc = "popped"
    /\ visited_nodes' = (IF counts(threads[t].call)
                            /\ popping(threads[t].call, threads[t].s)
                                 # threads[t].call.goal
                         THEN threads[t].loaded + 1 ELSE visited_nodes)
    /\ threads' = [threads EXCEPT
                     ![t].pc = "loop",
                     ![t].s = locals_iter(threads[t].call, @)]
    /\ UNCHANGED <<rows, columns, grid, pathfinding_time, calls, call, ret>>

Expand(t) ==
    \* the write of visited_nodes, the goal test and the loop over the
    \* neighbors
    /\ threads[t].pc = "popped"
    /\ visited_nodes' = (IF counts(threads[t].call)
                         THEN threads[t].loaded + 1 ELSE visited_nodes)
    /\ threads' = [threads EXCEPT
                     ![t].pc = "loop",
                     ![t].s = locals_iter(threads[t].call, @)]
    /\ UNCHANGED <<rows, columns, grid, pathfinding_time, calls, call, ret>>

Return(t) ==
    \* the write of pathfinding_time and the return, of the path found or of
    \* None after the loop
    /\ threads[t].pc = "loop"
    /\ loop_ended(threads[t].call, threads[t].s)
    /\ pathfinding_time' = (IF counts(threads[t].call)
                            THEN Elapsed(threads[t].call) ELSE pathfinding_time)
    /\ threads' = [threads EXCEPT ![t].pc = "done", ![t].ret = threads[t].s.path]
    /\ UNCHANGED <<rows, columns, grid, visited_nodes, calls, call, ret>>

\* the calls of the four searches with their endpoints in P
SearchCalls(P) ==
    [op : {"find_path_astar", "find_path_greedy_best_first"},
     start : P, goal : P, heuristic_type : Heuristics]
    \cup [op : {"find_path_dijkstra", "find_path_bfs"}, start : P, goal : P]

\* StepSpec: one search of a new engine, statement by statement, on any grid
\* map of at most MaxRows x MaxWide tiles of which at most MaxFences are
\* fences: wide enough for a search to find a shorter way to a position that
\* is waiting in its queue.
StepInit ==
    /\ rows \in 1..MaxRows
    /\ columns \in 1..MaxWide
    /\ grid \in {g \in [(0..(rows - 1)) \X (0..(columns - 1)) -> {"", "F"}] :
                   Marked(g) <= MaxFences}
    /\ visited_nodes = 0
    /\ pathfinding_time = ZeroTime
    /\ calls = 0
    /\ call = [op |-> "__init__"]
    /\ ret = None
    /\ threads = [t \in Threads |-> Idle]

StepNext ==
    \/ /\ threads["first"].pc = "idle"
       /\ \E c \in SearchCalls(Positions) : Enter("first", c)
    \/ Pop("first")
    \/ Expand("first")
    \/ Return("first")

StepSpec == StepInit /\ [][StepNext]_vars

\* RaceSpec: two searches on one engine, their statements interleaved in any
\* order, between the far corners of a grid map with sides of at most
\* MaxSide.
RaceInit ==
    /\ rows \in 1..MaxSide
    /\ columns \in 1..MaxSide
    /\ grid \in [(0..(rows - 1)) \X (0..(columns - 1)) -> {"", "F"}]
    /\ visited_nodes = 0
    /\ pathfinding_time = ZeroTime
    /\ calls = 0
    /\ call = [op |-> "__init__"]
    /\ ret = None
    /\ threads = [t \in Threads |-> Idle]

RaceNext ==
    \E t \in Threads :
        \/ /\ threads[t].pc = "idle"
           /\ \E c \in SearchCalls({<<0, 0>>, <<rows - 1, columns - 1>>}) :
                Enter(t, c)
        \/ Pop(t)
        \/ Expand(t)
        \/ Return(t)

RaceSpec == RaceInit /\ [][RaceNext]_vars

(***************************************************************************)
(* What the claims speak of, stated from the grid alone.                   *)
(***************************************************************************)
FreeCell(p) ==
    /\ 0 <= p[1] /\ p[1] < rows /\ 0 <= p[2] /\ p[2] < columns
    /\ grid[p] # "F"
Adjacent(p, q) == abs(p[1] - q[1]) + abs(p[2] - q[2]) = 1

Around(p) == {<<p[1] - 1, p[2]>>, <<p[1] + 1, p[2]>>,
              <<p[1], p[2] - 1>>, <<p[1], p[2] + 1>>}

\* S, and the free cells one step from a cell of S
Step4(S) == S \cup {q \in UNION {Around(p) : p \in S} : FreeCell(q)}

RECURSIVE StepsFrom(_, _, _)
StepsFrom(S, goal, k) ==
    \* the fewest steps to goal from the cells that are within k steps of the
    \* start; -1 when no walkable route leads there
    IF goal \in S THEN k
    ELSE LET N == Step4(S)
         IN  IF N = S THEN -1 ELSE StepsFrom(N, goal, k + 1)

\* the true shortest step distance, or -1
Distance(start, goal) ==
    IF FreeCell(start) /\ FreeCell(goal) THEN StepsFrom({start}, goal, 0) ELSE -1

Reachable(start, goal) == Distance(start, goal) >= 0

ValidRoute(path, start, goal) ==
    /\ Len(path) >= 1
    /\ path[1] = start
    /\ path[Len(path)] = goal
    /\ \A i \in 1..(Len(path) - 1) : Adjacent(path[i], path[i + 1])
    /\ \A i \in 1..Len(path) : FreeCell(path[i])
    /\ \A i, j \in 1..Len(path) : i # j => path[i] # path[j]

FreshSelf == [visited_nodes |-> 0, timed |-> FALSE]

\* the last single-target search, made again of an engine just constructed
Rerun ==
    IF call.op = "find_path_astar"
    THEN find_path_astar(FreshSelf, call.start, call.goal, call.heuristic_type)
    ELSE IF call.op = "find_path_dijkstra"
    THEN find_path_dijkstra(FreshSelf, call.start, call.goal)
    ELSE IF call.op = "find_path_greedy_best_first"
    THEN find_path_greedy_best_first(FreshSelf, call.start, call.goal,
                                     call.heuristic_type)
    ELSE find_path_bfs(FreshSelf, call.start, call.goal)

OptimalCall ==
    \/ call.op = "find_path_astar" /\ call.heuristic_type = "manhattan"
    \/ call.op = "find_path_dijkstra"
    \/ call.op = "find_path_bfs"

C2_PathIffReachable ==
    call.op \in SearchOps
        => /\ ret.kind \in {"None", "path"}
           /\ (ret # None) <=> Reachable(call.start, call.goal)

\* greedy search between two free cells that no route joins
C2_Witness ==
    /\ call.op = "find_path_greedy_best_first"
    /\ FreeCell(call.start) /\ FreeCell(call.goal)
    /\ ret = None

(***************************************************************************)
(* C3: a returned path starts at start, ends at goal, moves one step up,   *)
(* down, left or right at a time, stays on walkable cells of the grid and  *)
(* visits no cell twice.                                                   *)
(***************************************************************************)
C3_ValidRoute ==
    (call.op \in SearchOps /\ ret # None)
        => ValidRoute(ret.path, call.start, call.goal)

\* a greedy route of at least four steps that passes a tilled tile
C3_Witness ==
    /\ call.op = "find_path_greedy_best_first"
    /\ ret # None
    /\ Len(ret.path) >= 5
    /\ \E i \in 2..(Len(ret.path) - 1) : grid[ret.path[i]] = "T"

(***************************************************************************)
(* C4: no query of the engine changes a tile or the dimensions of the grid *)
(* map: across every step that is a query, whether it finds a path or not, *)
(* grid, rows and columns stay as they were.  (The map does change, by the *)
(* edits made between the queries.)                                        *)
(***************************************************************************)
C4_QueriesLeaveGrid ==
    [][call'.op \in QueryOps => UNCHANGED <<grid, rows, columns>>]_vars

\* a second query has failed on a map that edits have fenced and tilled
C4_Witness ==
    /\ calls = 2
    /\ call.op \in SearchOps
    /\ ret = None
    /\ \E p, q \in Cells : grid[p] = "F" /\ grid[q] = "T"

(***************************************************************************)
(* C5: a search whose start or goal is outside the grid or not walkable    *)
(* returns no path and leaves visited_nodes equal to 0, whatever           *)
(* visited_nodes was before the call, for each of the four algorithms.     *)
(***************************************************************************)
C5_InvalidEndpointsResetVisited ==
    (call.op \in SearchOps /\ ~(FreeCell(call.start) /\ FreeCell(call.goal)))
        => ret = None /\ visited_nodes = 0

(***************************************************************************)
(* C6: when start and goal are walkable cells of the grid that no walkable *)
(* route joins, each of the four algorithms returns no path and            *)
(* visited_nodes is greater than 0 after the call.                         *)
(***************************************************************************)
C6_UnreachableCountsVisited ==
    (/\ call.op \in SearchOps
     /\ FreeCell(call.start) /\ FreeCell(call.goal)
     /\ ~Reachable(call.start, call.goal))
        => ret = None /\ visited_nodes > 0

(***************************************************************************)
(* C7: every single-target search, called directly or by                   *)
(* run_pathfinding_with_stats, overwrites visited_nodes and                *)
(* pathfinding_time: after any sequence of calls the time is the one       *)
(* measured by the latest call and the count is the count of that search   *)
(* (for breadth-first search, which keeps no count of its own, the time    *)
(* alone is compared), and the entries of the returned stats are these.    *)
(***************************************************************************)
C7_StatsOfLatestCall ==
    /\ call.op \in SearchOps
         => /\ pathfinding_time = Elapsed(call)
            /\ call.op # "find_path_bfs"
                 => visited_nodes = Rerun.self.visited_nodes
    /\ call.op = "run_pathfinding_with_stats"
         => /\ pathfinding_time = Elapsed(call)
            /\ ret.time = Elapsed(call)
            /\ ret.visited_nodes = visited_nodes

(***************************************************************************)
(* C8, as claimed: the route length of a path is its number of positions   *)
(* less one, and that of a failed search (no path) is 0, both as           *)
(* get_path_length returns it and as the route_length entry of             *)
(* run_pathfinding_with_stats.                                             *)
(***************************************************************************)
RouteLengthClaimed(path) ==
    IntVal(IF path = None THEN 0 ELSE Len(path.path) - 1)

C8_RouteLengthZeroOnFailure ==
    /\ call.op = "get_path_length" => ret = RouteLengthClaimed(call.path)
    /\ call.op = "run_pathfinding_with_stats"
         => ret.route_length = RouteLengthClaimed(ret.path)

(***************************************************************************)
(* C8, amended: the route length of a path is its number of positions less *)
(* one; for a failed search get_path_length returns 0, and the             *)
(* route_length entry of run_pathfinding_with_stats is None.               *)
(***************************************************************************)
C8_RouteLength ==
    /\ call.op = "get_path_length" => ret = RouteLengthClaimed(call.path)
    /\ call.op = "run_pathfinding_with_stats"
         => ret.route_length = (IF ret.path = None THEN None
                                ELSE RouteLengthClaimed(ret.path))

\* the stats of a search that found no path between two walkable cells
C8_Witness ==
    /\ call.op = "run_pathfinding_with_stats"
    /\ FreeCell(call.start) /\ FreeCell(call.goal)
    /\ ret.path = None
    /\ ret.route_length = None

Tilled == {p \in Cells : grid[p] = "T"}

PathTo(tile) ==
    find_path_by(FreshSelf, call.algorithm, call.start, tile,
                 call.heuristic_type).ret

C10_NearestFirstOfShortest ==
    call.op = "find_nearest_tilled"
        => LET found == [t \in Tilled |-> PathTo(t)]
           IN  IF \A t \in Tilled : found[t] = None
               THEN ret = None
               ELSE /\ ret # None
                    /\ ret.goal \in Tilled
                    /\ found[ret.goal] = Some(ret.path)
                    /\ \A t \in Tilled :
                         found[t] # None
                           => \/ Len(found[t].path) > Len(ret.path)
                              \/ /\ Len(found[t].path) = Len(ret.path)
                                 /\ ~PosLess(t, ret.goal)

\* two Tilled tiles have paths of the same, smallest length
C10_Witness ==
    /\ call.op = "find_nearest_tilled"
    /\ ret # None
    /\ \E t \in Tilled :
         /\ t # ret.goal
         /\ PathTo(t) # None
         /\ Len(PathTo(t).path) = Len(ret.path)

(***************************************************************************)
(* C11: with an optimal algorithm (bfs, dijkstra, or astar with the        *)
(* Manhattan heuristic) and at least one Tilled tile reachable from start, *)
(* find_nearest_tilled returns a reachable Tilled tile whose true shortest *)
(* step distance from start is the least among the reachable Tilled tiles, *)
(* wherever that tile comes in the row-major order.                        *)
(***************************************************************************)
OptimalSelection ==
    \/ call.algorithm \in {"bfs", "dijkstra"}
    \/ call.algorithm = "astar" /\ call.heuristic_type = "manhattan"

ReachableTilled == {t \in Tilled : Reachable(call.start, t)}

C12_NoneIffNoReachableGoal ==
    call.op = "find_nearest_tilled"
        => /\ ret.kind \in {"None", "pair"}
           /\ (ret = None) <=> (ReachableTilled = {})
           /\ ret # None => ret.goal \in ReachableTilled

\* a goal is returned although a Tilled tile before it has no path
C12_Witness ==
    /\ call.op = "find_nearest_tilled"
    /\ ret # None
    /\ \E t \in Tilled : PosLess(t, ret.goal) /\ ~Reachable(call.start, t)

(***************************************************************************)
(* C13: for a position outside the grid (row or column negative, row >=    *)
(* rows or col >= columns) set_tile returns False, get_tile returns None   *)
(* and is_walkable returns False, and the call leaves the grid as it was.  *)
(***************************************************************************)
OutOfGrid(row, col) == row < 0 \/ row >= rows \/ col < 0 \/ col >= columns

C13_OutOfGridRejected ==
    [][(/\ call'.op \in {"set_tile", "get_tile", "is_walkable"}
        /\ OutOfGrid(call'.row, call'.col))
         => /\ grid' = grid
            /\ ret' = (IF call'.op = "get_tile" THEN None ELSE Bool(FALSE))]_vars

\* get_tile was asked about the row below the last one of a map that has
\* been fenced and tilled
C13_Witness ==
    /\ call.op = "get_tile"
    /\ call.row = rows /\ call.col = 0
    /\ ret = None
    /\ \E p, q \in Cells : grid[p] = "F" /\ grid[q] = "T"

(***************************************************************************)
(* C14: for a position p of the grid and each of the three tile states,    *)
(* whatever p was before, set_tile returns True, get_tile(p) then returns  *)
(* the state set, every other tile is as before, and is_walkable(p) is     *)
(* then False for Fenced and True for Open and Tilled.                     *)
(***************************************************************************)
C14_SetTileOverwrites ==
    [][\A p \in Cells, t \in {"", "T", "F"} :
         call' = [op |-> "set_tile", row |-> p[1], col |-> p[2], tile_type |-> t]
           => /\ ret' = Bool(TRUE)
              /\ get_tile(p[1], p[2])' = Tile(t)
              /\ \A q \in Cells \ {p} : grid'[q] = grid[q]
              /\ is_walkable(p[1], p[2])' = (t # "F")]_vars

\* a tile has been set to Open on a map that has a fence and a tilled tile
C14_Witness ==
    /\ call.op = "set_tile"
    /\ call.tile_type = ""
    /\ ret = Bool(TRUE)
    /\ grid[<<call.row, call.col>>] = ""
    /\ \E p, q \in Cells : grid[p] = "F" /\ grid[q] = "T"

(***************************************************************************)
(* C15, as claimed: on every grid get_neighbors returns exactly 2          *)
(* positions for a corner cell, exactly 3 for an edge cell that is not a   *)
(* corner, and exactly 4 for an interior cell.                             *)
(***************************************************************************)
OnRowEdge(row) == row = 0 \/ row = rows - 1
OnColEdge(col) == col = 0 \/ col = columns - 1

NeighborsClaimed(row, col) ==
    IF OnRowEdge(row) /\ OnColEdge(col) THEN 2
    ELSE IF OnRowEdge(row) \/ OnColEdge(col) THEN 3
    ELSE 4

C15_NeighborCountsOnEveryGrid ==
    (call.op = "get_neighbors" /\ ~OutOfGrid(call.row, call.col))
        => Len(ret.value) = NeighborsClaimed(call.row, call.col)

(***************************************************************************)
(* C15, amended: on every grid of at least two rows and two columns        *)
(* get_neighbors returns exactly 2 positions for a corner cell, exactly 3  *)
(* for an edge cell that is not a corner, and exactly 4 for an interior    *)
(* cell.                                                                   *)
(***************************************************************************)
C15_NeighborCounts ==
    (/\ call.op = "get_neighbors" /\ ~OutOfGrid(call.row, call.col)
     /\ rows >= 2 /\ columns >= 2)
        => Len(ret.value) = NeighborsClaimed(call.row, call.col)

\* the four neighbours of an interior cell, one of them fenced
C15_Witness ==
    /\ call.op = "get_neighbors"
    /\ ~OnRowEdge(call.row) /\ ~OnColEdge(call.col)
    /\ ~OutOfGrid(call.row, call.col)
    /\ Len(ret.value) = 4
    /\ \E i \in 1..4 : grid[ret.value[i]] = "F"

(***************************************************************************)
(* C16: get_neighbors(row, col) returns the positions of the grid among    *)
(* (row-1,col), (row+1,col), (row,col-1), (row,col+1), in that order (up,  *)
(* down, left, right), whether walkable or not: a Fenced neighbour in the  *)
(* grid is returned too.                                                   *)
(***************************************************************************)
Rank(row, col, q) ==
    \* 1..4 for the position up, down, left, right of (row, col); 0 otherwise
    IF q = <<row - 1, col>> THEN 1
    ELSE IF q = <<row + 1, col>> THEN 2
    ELSE IF q = <<row, col - 1>> THEN 3
    ELSE IF q = <<row, col + 1>> THEN 4
    ELSE 0

C16_NeighborsInOrder ==
    call.op = "get_neighbors"
        => LET l == ret.value
           IN  /\ \A i \in 1..Len(l) : Rank(call.row, call.col, l[i]) > 0
               /\ \A i \in 1..(Len(l) - 1) :
                    Rank(call.row, call.col, l[i]) < Rank(call.row, call.col, l[i + 1])
               /\ \A q \in Cells :
                    Rank(call.row, call.col, q) > 0 => \E i \in 1..Len(l) : l[i] = q
               /\ \A i \in 1..Len(l) : ~OutOfGrid(l[i][1], l[i][2])

\* three neighbours of a cell on the left edge, the one below it fenced
C16_Witness ==
    /\ call.op = "get_neighbors"
    /\ call.row = 1 /\ call.col = 0
    /\ ret.value = << <<0, 0>>, <<2, 0>>, <<1, 1>> >>
    /\ grid[<<2, 0>>] = "F"

(***************************************************************************)
(* C17: after any sequence of grid mutations find_tilled_tiles returns the *)
(* positions whose tile is Tilled, all of them and no others, each once,   *)
(* in ascending row-major order (by row, then by column).                  *)
(***************************************************************************)
C17_TilledInRowMajorOrder ==
    call.op = "find_tilled_tiles"
        => LET l == ret.value
           IN  /\ {l[i] : i \in 1..Len(l)} = {p \in Cells : grid[p] = "T"}
               /\ \A i \in 1..(Len(l) - 1) :
                    \/ l[i][1] < l[i + 1][1]
                    \/ l[i][1] = l[i + 1][1] /\ l[i][2] < l[i + 1][2]

\* three tilled tiles found in two rows, and a fence passed over
C17_Witness ==
    /\ call.op = "find_tilled_tiles"
    /\ Len(ret.value) = 3
    /\ ret.value[1][1] # ret.value[3][1]
    /\ \E p \in Cells : grid[p] = "F"

(***************************************************************************)
(* C18: generate_random_obstacles(density) changes no Tilled tile and      *)
(* changes other tiles only to Fenced; it makes int(rows*columns*density)  *)
(* attempts, so whatever positions are drawn the number of Fenced tiles    *)
(* grows by at most that count, and when the count is not positive (as for *)
(* density 0.0) the grid is left as it was.                                *)
(***************************************************************************)
Fenced(g) == Cardinality({p \in DOMAIN g : g[p] = "F"})

C18_ObstaclesOnlyFence ==
    [][\A fence_density \in Densities :
         call' = [op |-> "generate_random_obstacles",
                  fence_density |-> fence_density]
           => LET count == int(rows * columns * fence_density[1],
                               fence_density[2])
              IN  /\ \A p \in Cells : grid[p] = "T" => grid'[p] = "T"
                  /\ \A p \in Cells : grid'[p] # grid[p] => grid'[p] = "F"
                  /\ count > 0 => Fenced(grid') <= Fenced(grid) + count
                  /\ count <= 0 => grid' = grid]_vars

\* density 1.0 on a map with tilled dirt: a tile got fenced, the tilled tile
\* is still tilled, and a tile was never drawn
C18_Witness ==
    /\ call.op = "generate_random_obstacles"
    /\ call.fence_density = <<1, 1>>
    /\ \E p, q, r \in Cells : grid[p] = "F" /\ grid[q] = "T" /\ grid[r] = ""

(***************************************************************************)
(* C19: clear() makes every tile Open, whatever the tiles were, and leaves *)
(* rows and columns as they were; afterwards find_tilled_tiles returns the *)
(* empty sequence and every position of the grid is walkable.              *)
(***************************************************************************)
C19_ClearOpensAll ==
    [][call'.op = "clear"
         => /\ UNCHANGED <<rows, columns>>
            /\ \A p \in Cells : get_tile(p[1], p[2])' = Tile("")
            /\ find_tilled_tiles' = << >>
            /\ \A p \in Cells : is_walkable(p[1], p[2])']_vars

\* a cleared map of four tiles
C19_Witness ==
    /\ call.op = "clear"
    /\ rows = 2 /\ columns = 2
    /\ \A p \in Cells : grid[p] = ""

(***************************************************************************)
(* C20: after any sequence of set_tile, place_tilled_dirt,                 *)
(* generate_random_obstacles and clear calls, with positions outside the   *)
(* grid and unknown tile types among the arguments, the grid has exactly   *)
(* the rows x columns tiles it was constructed with, and every tile is     *)
(* Open, Tilled or Fenced.                                                 *)
(***************************************************************************)
C20_ShapeAndTilesKept ==
    [][/\ UNCHANGED <<rows, columns>>
       /\ DOMAIN grid' = (0..(rows - 1)) \X (0..(columns - 1))
       /\ \A p \in DOMAIN grid' : grid'[p] \in {"", "T", "F"}]_vars

\* set_tile was refused an unknown tile type at a position of the grid
C20_Witness ==
    /\ call.op = "set_tile"
    /\ ~OutOfGrid(call.row, call.col)
    /\ call.tile_type \notin {"", "T", "F"}
    /\ ret = Bool(FALSE)
    /\ \E p \in Cells : grid[p] # ""

(***************************************************************************)
(* Searches in progress at once on one engine.                             *)
(***************************************************************************)
\* the search c made by itself, of an engine just constructed
Alone(c) ==
    IF c.op = "find_path_astar"
    THEN find_path_astar(FreshSelf, c.start, c.goal, c.heuristic_type)
    ELSE IF c.op = "find_path_dijkstra"
    THEN find_path_dijkstra(FreshSelf, c.start, c.goal)
    ELSE IF c.op = "find_path_greedy_best_first"
    THEN find_path_greedy_best_first(FreshSelf, c.start, c.goal, c.heuristic_type)
    ELSE find_path_bfs(FreshSelf, c.start, c.goal)

\* C21: of two single-target searches whose statements are interleaved on one
\* engine over a grid that does not change, each returns the path it returns
\* when it is run alone; only visited_nodes and pathfinding_time are shared,
\* and they can end with a value that neither search leaves when run alone.
C21_InterleavedSearchesReturnSamePath ==
    \A t \in Threads :
        threads[t].pc = "done" => threads[t].ret = Alone(threads[t].call).ret

\* both searches have found their path between them, and the engine's count
\* is that of neither
C21_Witness ==
    /\ \A t \in Threads : /\ threads[t].pc = "done"
                          /\ counts(threads[t].call)
                          /\ threads[t].ret # None
                          /\ threads[t].ret = Alone(threads[t].call).ret
                          /\ visited_nodes # Alone(threads[t].call).self.visited_nodes
    /\ threads["first"].call # threads["second"].call
    /\ pathfinding_time = Elapsed(threads["first"].call)

(***************************************************************************)
(* Names the code does not know.                                           *)
(***************************************************************************)
KnownAlgorithm == IF call.algorithm \in Algorithms THEN call.algorithm ELSE "astar"
KnownHeuristic ==
    IF call.heuristic_type \in Heuristics THEN call.heuristic_type ELSE "manhattan"

\* C22: an algorithm string that is none of "astar", "dijkstra", "greedy",
\* "bfs" makes run_pathfinding_with_stats and find_nearest_tilled behave as
\* with "astar", and a heuristic string that is none of "manhattan",
\* "euclidean", "chebyshev" makes them behave as with "manhattan": the same
\* path and the same visited_nodes, and no error.
C22_UnknownNamesTakeDefaults ==
    /\ call.op = "find_nearest_tilled"
         => LET r == find_nearest_tilled(FreshSelf, call.start, KnownHeuristic,
                                         KnownAlgorithm)
            IN  ret = r.ret /\ visited_nodes = r.self.visited_nodes
    /\ call.op = "run_pathfinding_with_stats"
         => LET r == run_algorithm(FreshSelf, KnownAlgorithm, call.start,
                                   call.goal, KnownHeuristic)
            IN  /\ ret.path = r.ret
                /\ ret.visited_nodes = r.self.visited_nodes
                /\ visited_nodes = r.self.visited_nodes

\* an unknown algorithm with an unknown heuristic has found the nearer of two
\* Tilled tiles, where breadth-first search would have counted nothing
C22_Witness ==
    /\ call.op = "find_nearest_tilled"
    /\ call.algorithm = OtherAlgorithm
    /\ call.heuristic_type = OtherHeuristic
    /\ Cardinality(Tilled) >= 2
    /\ ret # None
    /\ Len(ret.path) >= 3
    /\ visited_nodes > 0

(***************************************************************************)
(* The Chebyshev heuristic against the true distance.                      *)
(***************************************************************************)
ChebyshevCall ==
    /\ call.op \in {"find_path_astar", "find_path_greedy_best_first"}
    /\ call.heuristic_type = "chebyshev"

BothDeltasNonZero(a, b) == a[1] # b[1] /\ a[2] # b[2]

\* C23: the Chebyshev heuristic max(|d_row|, |d_col|) never exceeds the true
\* shortest step distance between two walkable positions of which one is
\* reachable from the other by 4-directional unit-cost moves, and where both
\* coordinate differences are non-zero it is strictly less.
C23_ChebyshevWithinDistance ==
    ChebyshevCall
        => LET d == Distance(call.start, call.goal)
               h == _heuristic_chebyshev(call.start, call.goal)
           IN  d >= 0 => /\ ~NumLess(Num(d), h)
                         /\ BothDeltasNonZero(call.start, call.goal)
                              => NumLess(h, Num(d))

\* a search with the Chebyshev heuristic between two positions that differ in
\* row and column and are joined only by a detour
C23_Witness ==
    /\ ChebyshevCall
    /\ BothDeltasNonZero(call.start, call.goal)
    /\ ret # None
    /\ Distance(call.start, call.goal)
         > abs(call.start[1] - call.goal[1]) + abs(call.start[2] - call.goal[2])
    /\ NumLess(_heuristic_chebyshev(call.start, call.goal),
               Num(Distance(call.start, call.goal)))

\* the true shortest step distance between two positions of the grid map g,
\* or -1
FreeIn(g, p) == p \in DOMAIN g /\ g[p] # "F"

RECURSIVE StepsIn(_, _, _, _)
StepsIn(g, S, goal, k) ==
    IF goal \in S THEN k
    ELSE LET N == S \cup {q \in UNION {Around(p) : p \in S} : FreeIn(g, q)}
         IN  IF N = S THEN -1 ELSE StepsIn(g, N, goal, k + 1)

\* C23 as it was stated: there are a grid map (here any that is at least as
\* large as the engine's and of at most MaxRows x MaxCols tiles) and walkable
\* positions a and b on it, b reachable from a and both coordinate
\* differences non-zero, for which the Chebyshev heuristic exceeds the true
\* shortest step distance.
C23_ChebyshevExceedsDistance ==
    \E r \in rows..MaxRows, c \in columns..MaxCols :
        \E g \in [(0..(r - 1)) \X (0..(c - 1)) -> {"", "F"}] :
            \E a \in DOMAIN g, b \in DOMAIN g :
                /\ BothDeltasNonZero(a, b)
                /\ FreeIn(g, a)
                /\ FreeIn(g, b)
                /\ LET d == StepsIn(g, {a}, b, 0)
                   IN  d >= 0 /\ NumLess(Num(d), _heuristic_chebyshev(a, b))

(***************************************************************************)
(* One search, statement by statement.                                     *)
(***************************************************************************)
Search == threads["first"]

\* the search has entered its loop, now or before
InLoop == Search.pc \in {"loop", "popped"} \/ (Search.pc = "done" /\ Search.s # None)

Walkable == {p \in Cells : grid[p] # "F"}

C25_GoalCountedWhenPopped ==
    (Search.pc # "idle" /\ counts(Search.call))
        => /\ Search.pc = "loop" => visited_nodes = Len(Search.pops)
           /\ (Search.pc = "done" /\ Search.ret # None)
                => /\ visited_nodes = Len(Search.pops)
                   /\ visited_nodes >= 1
                   /\ Search.pops[Len(Search.pops)] = Search.call.goal
           /\ (/\ Search.pc = "done"
               /\ Search.call.start = Search.call.goal
               /\ is_walkable(Search.call.start[1], Search.call.start[2]))
                => /\ Search.ret = Some(<<Search.call.start>>)
                   /\ visited_nodes = 1

\* a search from a walkable tile with open neighbors to itself has returned
C25_Witness ==
    /\ Search.pc = "done"
    /\ counts(Search.call)
    /\ Search.call.start = Search.call.goal
    /\ Search.ret = Some(<<Search.call.start>>)
    /\ visited_nodes = 1
    /\ Search.pops = <<Search.call.goal>>
    /\ Cardinality(Walkable) >= 3

\* following the predecessors from p reaches start within k steps
RECURSIVE LeadsToStart(_, _, _, _)
LeadsToStart(came_from, p, start, k) ==
    \/ p = start
    \/ /\ k > 0
       /\ p \in DOMAIN came_from
       /\ LeadsToStart(came_from, came_from[p], start, k - 1)

\* the statements the search can execute at most before it has returned: two
\* for each position not yet popped, and the return
StatementsLeft ==
    CASE Search.pc = "idle"   -> 2 * rows * columns + 3
      [] Search.pc = "loop"   -> 2 * (rows * columns - Len(Search.pops)) + 1
      [] Search.pc = "popped" -> 2 * (rows * columns - Len(Search.pops)) + 2
      [] Search.pc = "done"   -> 0

\* C26: each of the four searches terminates on every grid (every statement
\* it executes brings it nearer to its return, which is a bounded number of
\* statements away), and at every point of a search came_from is acyclic:
\* start has no predecessor, and following the predecessors from any recorded
\* position reaches start.
C26_TerminatesAndPredecessorsLeadToStart ==
    /\ [](/\ StatementsLeft >= 0
          /\ InLoop
               => /\ Search.call.start \notin DOMAIN Search.s.came_from
                  /\ \A p \in DOMAIN Search.s.came_from :
                       LeadsToStart(Search.s.came_from, p, Search.call.start,
                                    Cardinality(DOMAIN Search.s.came_from)))
    /\ [][StatementsLeft' < StatementsLeft]_vars

\* a search that has given up after it recorded a predecessor for every
\* walkable tile it could reach, some of them two steps or more from start
C26_Witness ==
    /\ Search.pc = "done"
    /\ Search.s # None
    /\ Search.ret = None
    /\ Cardinality(DOMAIN Search.s.came_from) >= 4
    /\ \E p \in DOMAIN Search.s.came_from :
         Search.s.came_from[p] # Search.call.start
    /\ StatementsLeft = 0

\* the search keeps a priority queue and is in its loop
Queueing == Search.pc \in {"loop", "popped"} /\ counts(Search.call)

SamePriority(e1, e2) == ~NumLess(e1[1], e2[1]) /\ ~NumLess(e2[1], e1[1])

\* C27: in A*, Dijkstra and Greedy the insertion counter is unique to each
\* pushed entry and strictly increasing within a call, so entries of equal
\* priority are popped in the order they were pushed and the position never
\* decides the order of two entries.
C27_CounterOrdersEqualPriorities ==
    /\ [](Queueing
            => /\ \A e \in Search.s.open_set : e[2] < Search.s.counter
               /\ \A e1 \in Search.s.open_set, e2 \in Search.s.open_set :
                    e1 # e2 => e1[2] # e2[2]
               /\ Search.pc = "popped"
                    => \A e \in Search.s.open_set :
                         (/\ e # heappop(Search.s.open_set)
                          /\ SamePriority(e, heappop(Search.s.open_set)))
                           => heappop(Search.s.open_set)[2] < e[2])
    /\ [][(Queueing /\ Queueing')
            => /\ Search'.s.counter >= Search.s.counter
               /\ \A e \in Search'.s.open_set \ Search.s.open_set :
                    e[2] >= Search.s.counter /\ e[2] < Search'.s.counter]_vars

\* an entry is popped while another of the same priority, pushed after it and
\* at a position that sorts before its own, waits in the queue
C27_Witness ==
    /\ Queueing
    /\ Search.pc = "popped"
    /\ \E e \in Search.s.open_set :
         /\ e # heappop(Search.s.open_set)
         /\ SamePriority(e, heappop(Search.s.open_set))
         /\ PosLess(e[3], heappop(Search.s.open_set)[3])
         /\ heappop(Search.s.open_set)[2] > 0

\* the search is A* or Dijkstra, which mirror their queue in open_set_hash
Mirrored == /\ Search.pc \in {"loop", "popped"}
            /\ Search.call.op \in {"find_path_astar", "find_path_dijkstra"}

\* C28: in A* and in Dijkstra, at the start of every loop iteration the
\* positions that have an entry in the priority queue are exactly those of
\* open_set_hash, and no position has more than one entry; so every popped
\* position is in open_set_hash when it is popped, and no entry is popped for
\* a position that has been expanded before.
C28_QueueMirrorsOpenSetHash ==
    Mirrored
        => /\ {e[3] : e \in Search.s.open_set} = Search.s.open_set_hash
           /\ Cardinality(Search.s.open_set) = Cardinality(Search.s.open_set_hash)
           /\ Search.pc = "popped"
                => /\ Search.pops[Len(Search.pops)] \in Search.s.open_set_hash
                   /\ \A i \in 1..(Len(Search.pops) - 1) :
                        Search.pops[i] # Search.pops[Len(Search.pops)]

\* A* has found a shorter way to a position that waits in the queue: its
\* f_score has improved and its one entry keeps the priority it was pushed with
C28_Witness ==
    /\ Mirrored
    /\ Search.pc = "loop"
    /\ Search.call.op = "find_path_astar"
    /\ \E e \in Search.s.open_set :
         /\ e[2] > 0
         /\ NumLess(Search.s.f_score[e[3]], e[1])
    /\ Cardinality(Search.s.open_set) = Cardinality(Search.s.open_set_hash)

\* C29: find_path_dijkstra and find_path_bfs return the same sequence of
\* positions (or both None) for every grid, start and goal.
C29_DijkstraReturnsBfsPath ==
    /\ (Search.pc = "done" /\ Search.call.op = "find_path_dijkstra")
         => Search.ret = find_path_bfs(FreshSelf, Search.call.start,
                                       Search.call.goal).ret
    /\ (Search.pc = "done" /\ Search.call.op = "find_path_bfs")
         => Search.ret = find_path_dijkstra(FreshSelf, Search.call.start,
                                            Search.call.goal).ret

\* Dijkstra has returned one of several shortest paths, round a fence
C29_Witness ==
    /\ Search.pc = "done"
    /\ Search.call.op = "find_path_dijkstra"
    /\ Search.ret # None
    /\ BothDeltasNonZero(Search.call.start, Search.call.goal)
    /\ Len(Search.ret.path) >= 5
    /\ Cardinality(Walkable) < rows * columns
    /\ Search.ret = find_path_bfs(FreshSelf, Search.call.start,
                                  Search.call.goal).ret

(***************************************************************************)
(* The count that find_nearest_tilled leaves on the engine.                *)
(***************************************************************************)
\* the Tilled tile that comes last in row-major order
LastTilled == CHOOSE t \in Tilled : \A u \in Tilled : u = t \/ PosLess(u, t)

\* visited_nodes after the one search from the start of the call to tile
CountTo(tile) ==
    find_path_by(FreshSelf, call.algorithm, call.start, tile,
                 call.heuristic_type).self.visited_nodes

\* C30: after find_nearest_tilled with astar, dijkstra or greedy on a grid
\* with at least one Tilled tile, visited_nodes is the count of the search to
\* the Tilled tile that is last in row-major order, whichever goal is
\* returned.
C30_CountOfLastTilledSearch ==
    (/\ call.op = "find_nearest_tilled"
     /\ call.algorithm \in {"astar", "dijkstra", "greedy"}
     /\ Tilled # {})
        => visited_nodes = CountTo(LastTilled)

\* the goal returned is not the last Tilled tile, and the search to it counted
\* otherwise
C30_Witness ==
    /\ call.op = "find_nearest_tilled"
    /\ call.algorithm \in {"astar", "dijkstra", "greedy"}
    /\ ret # None
    /\ ret.goal # LastTilled
    /\ visited_nodes = CountTo(LastTilled)
    /\ visited_nodes # CountTo(ret.goal)

====
